---- MODULE Spec2Model ----
(***************************************************************************)
(* A model of mcp_m365_filesearch: the Graph search filter                 *)
(* (parse_search_response / search_m365_files), the recursive drive        *)
(* crawler (crawl_drive_items / crawl_files) and the download-and-extract  *)
(* cache (download_file / _read_file_content).                             *)
(*                                                                         *)
(* Python strings are sequences of one-character strings, so that          *)
(* str.endswith, str.lower and concatenation are computed, not assumed.    *)
(***************************************************************************)
EXTENDS Integers, Sequences, FiniteSets, TLC

VARIABLES
    \* ---- search ----
    sPc,        \* "idle" before the call of search_m365_files, "done" after
    sIn,        \* the inputs of the call and what the collaborators answer
    sOut,       \* the dict the handler returns
    \* ---- crawl ----
    cPc,        \* "idle", "crawling", "done"
    tree,       \* the drive: kind, parent and page of every node, pages of every folder
    cExt,       \* file_extension of the crawl ([set |-> FALSE] models None)
    cStack,     \* the activation records of crawl_drive_items, innermost last
    cOut,       \* what crawl_files returns
    cReq,       \* history: the pages requested, in order, as <<folder, page>>
    cFail,      \* history: the pages whose request did not return 200
    \* ---- download cache ----
    now,        \* time.time()
    disk,       \* the item folders under .local/downloads
    last,       \* history: the latest fetch
    \* ---- concurrent fetches of one item ----
    wk          \* every worker's position in download_file, and its locals

searchVars == <<sPc, sIn, sOut>>
crawlVars == <<cPc, tree, cExt, cStack, cOut, cReq, cFail>>
cacheVars == <<now, disk, last>>
raceVars == <<wk>>
vars == <<searchVars, crawlVars, cacheVars, raceVars>>

----------------------------------------------------------------------------
(* Strings *)

\* str.lower() on one character of the alphabet the model uses
LowerChar(c) ==
    CASE c = "A" -> "a" [] c = "D" -> "d" [] c = "F" -> "f" [] c = "P" -> "p"
      [] c = "X" -> "x" [] c = "L" -> "l" [] c = "S" -> "s"
      [] OTHER -> c

Lower(s) == [i \in 1..Len(s) |-> LowerChar(s[i])]

\* s.endswith(suf)
EndsWith(s, suf) ==
    /\ Len(suf) <= Len(s)
    /\ SubSeq(s, Len(s) - Len(suf) + 1, Len(s)) = suf

\* f".{ext}"
Dot(ext) == <<".">> \o ext

----------------------------------------------------------------------------
(* Search: parse_search_response and search_m365_files *)

MaxHits == 2

\* file_types of search_m365_files; "all" maps to None, modelled as <<>>
FileTypes ==
    [all |-> <<>>,
     document |-> << <<"d","o","c","x">>, <<"d","o","c">>, <<"t","x","t">>, <<"p","d","f">> >>,
     spreadsheet |-> << <<"x","l","s","x">>, <<"x","l","s">> >>,
     presentation |-> << <<"p","p","t","x">> >>,
     image |-> << <<"j","p","g">>, <<"p","n","g">> >>]

FileTypeNames == {"all", "document", "spreadsheet", "presentation", "image"}

\* resource names a Graph hit may carry; <<>> is a missing or empty name
HitNames ==
    { <<"b",".","x","l","s","x">>,
      <<"c",".","p","d","f">>,
      <<"d",".","x","l","s">>,
      <<"x","l","s","x">>,
      <<"e",".","X","L","S","X">>,
      <<>> }

\* webUrl of a hit, by what classify_source looks for in it
UrlKinds == {"personal", "site"}

Hits == [name : HitNames, url : UrlKinds, id : {1}]

HitSeqs == UNION {[1..n -> Hits] : n \in 0..MaxHits}

\* The JSON body of a 200 answer of /search/query for the single request
\* search_graph sends: "value" holds at most one entry, whose
\* "hitsContainers" holds at most one container with its "hits".
\* empty = TRUE is the empty object {}.
SearchBodies ==
    {[empty |-> TRUE, value |-> <<>>]}
    \cup {[empty |-> FALSE, value |-> <<>>]}
    \cup {[empty |-> FALSE, value |-> << [hitsContainers |-> <<>>] >>]}
    \cup {[empty |-> FALSE, value |-> << [hitsContainers |-> << [hits |-> h] >>] >>] :
             h \in HitSeqs}

classify_source(web_url) ==
    IF web_url = "personal" THEN "OneDrive" ELSE "SharePoint"

\* the test of lines 70-72 with ext in place of f".{ext}"
HitKeptNoDot(file_name, file_type, file_extension) ==
    /\ file_name # <<>>
    /\ \/ file_type = "all"
       \/ \E k \in 1..Len(file_extension) : EndsWith(file_name, file_extension[k])

\* the test of lines 70-72 on one hit
HitKept(file_name, file_type, file_extension) ==
    /\ file_name # <<>>
    /\ \/ file_type = "all"
       \/ \E k \in 1..Len(file_extension) : EndsWith(file_name, Dot(file_extension[k]))

ResultOf(hit) ==
    [name |-> hit.name, url |-> hit.url, source |-> classify_source(hit.url),
     fileid |-> hit.id]

RECURSIVE ParseHits(_, _, _)
ParseHits(hits, file_type, file_extension) ==
    IF hits = <<>> THEN <<>>
    ELSE LET rest == ParseHits(Tail(hits), file_type, file_extension)
         IN  IF HitKept(Head(hits).name, file_type, file_extension)
             THEN <<ResultOf(Head(hits))>> \o rest
             ELSE rest

parse_search_response(search_results, file_type, file_extension) ==
    LET hits_containers == search_results.value
    IN  IF hits_containers # <<>>
        THEN LET hits == hits_containers[1].hitsContainers
             IN  IF hits # <<>>
                 THEN ParseHits(hits[1].hits, file_type, file_extension)
                 ELSE <<>>
        ELSE <<>>

\* search_graph: the parsed body on 200, None otherwise
search_graph(status, body) ==
    IF status = 200 THEN [none |-> FALSE, json |-> body]
    ELSE [none |-> TRUE, json |-> [empty |-> TRUE, value |-> <<>>]]

SearchInputs ==
    [handler : {"main", "server"},
     blank : BOOLEAN,
     file_type : FileTypeNames,
     token : BOOLEAN,
     status : {200, 500},
     body : SearchBodies]

\* search_m365_files, the route of main.py and the tool of server.py
search_m365_files ==
    /\ sPc = "idle"
    /\ sPc' = "done"
    /\ LET file_extension == FileTypes[sIn.file_type]
           search_results == search_graph(sIn.status, sIn.body)
       IN  sOut' =
             IF sIn.handler = "server" /\ sIn.blank
             THEN [count |-> 0, files |-> <<>>,
                   message |-> "Please provide a valid search query."]
             ELSE IF ~sIn.token
             THEN [count |-> 0, files |-> <<>>, message |-> "Authentication failed."]
             ELSE IF search_results.none \/ search_results.json.empty
             THEN [count |-> 0, files |-> <<>>, message |-> "No results found."]
             ELSE LET results == parse_search_response(search_results.json,
                                                       sIn.file_type, file_extension)
                  IN  [count |-> Len(results), files |-> results, message |-> "none"]
    /\ UNCHANGED <<sIn, crawlVars, cacheVars, raceVars>>

----------------------------------------------------------------------------
(* Crawl: crawl_drive_items and crawl_files *)

NumNodes == 3
MaxPages == 2

Root == 0
Nodes == 1..NumNodes

\* item["name"] of node n
NamePool ==
    << <<"a",".","p","d","f">>,
       <<"a","p","d","f">>,
       <<"b",".","P","D","F">>,
       <<"c",".","t","x","t">> >>

NodeName(n) == NamePool[((n - 1) % Len(NamePool)) + 1]

\* values of file_extension other than None
ExtPool == { <<"p","d","f">>, <<"P","D","F">> }

NoExt == [set |-> FALSE, ext |-> <<>>]

\* A drive: every node is a file, a folder or an item with neither facet; it
\* lies on one page of the children listing of its parent, a folder created
\* before it (so the hierarchy is a finite tree); a folder's listing has
\* npages >= 1 pages chained by @odata.nextLink, some possibly empty.
Trees ==
    {t \in [kind : [Nodes -> {"file", "folder", "other"}],
            parent : [Nodes -> {Root} \cup Nodes],
            page : [Nodes -> 1..MaxPages],
            npages : [{Root} \cup Nodes -> 1..MaxPages]] :
        \A n \in Nodes :
            /\ t.parent[n] < n
            /\ t.parent[n] # Root => t.kind[t.parent[n]] = "folder"
            /\ t.page[n] <= t.npages[t.parent[n]]
            /\ t.kind[n] # "folder" => t.npages[n] = 1}

RECURSIVE Ascending(_)
\* the elements of a finite set of numbers, in increasing order
Ascending(S) ==
    IF S = {} THEN <<>>
    ELSE LET m == CHOOSE x \in S : \A y \in S : x <= y
         IN  <<m>> \o Ascending(S \ {m})

\* data.get("value", []) of page p of the children of folder f
PageItems(t, f, p) ==
    Ascending({n \in Nodes : t.parent[n] = f /\ t.page[n] = p})

\* a listing that never carries a continuation link
NextLinkNone(t, f, p) == 0

\* data.get("@odata.nextLink") of page p of folder f; 0 models None

NextLink(t, f, p) == IF p < t.npages[f] THEN p + 1 ELSE 0

\* the test of line 217
PassesFilter(name, file_extension) ==
    \/ ~file_extension.set
    \/ EndsWith(Lower(name), Lower(file_extension.ext))

CrawlEntry(n) == [name |-> NodeName(n), id |-> n]

\* one activation of crawl_drive_items: url is the page to request next
\* (0 is None), items the rest of the for loop over the page just read
Frame(f) == [folder |-> f, url |-> 1, items |-> <<>>, inPage |-> FALSE,
             results |-> <<>>]

\* a failed page that made the call return an empty list
OnPageFailEmpty(fr) == [fr EXCEPT !.url = 0, !.results = <<>>]

\* lines 210-212 and 233: break leaves the while loop, and the call returns
\* the results it holds

OnPageFail(fr) == [fr EXCEPT !.url = 0]

\* a caller that puts the child's items before its own
ExtendFront(results, child_items) == child_items \o results

\* line 228: results.extend(child_items)
Extend(results, child_items) == results \o child_items

Top == cStack[Len(cStack)]

SetTop(fr) == [cStack EXCEPT ![Len(cStack)] = fr]

\* crawl_files, no token: the 401 answer
CrawlNoToken ==
    /\ cPc = "idle"
    /\ cPc' = "done"
    /\ cOut' = [status |-> 401, count |-> 0, files |-> <<>>]
    /\ UNCHANGED <<tree, cExt, cStack, cReq, cFail, searchVars, cacheVars, raceVars>>

\* crawl_files with a token: the call crawl_drive_items(token, driveid, ext)
CrawlStart ==
    /\ cPc = "idle"
    /\ cPc' = "crawling"
    /\ cStack' = <<Frame(Root)>>
    /\ UNCHANGED <<tree, cExt, cOut, cReq, cFail, searchVars, cacheVars, raceVars>>

\* lines 208-214: the page request answers 200
CrawlPageOk ==
    /\ cPc = "crawling"
    /\ ~Top.inPage /\ Top.url # 0
    /\ cReq' = Append(cReq, <<Top.folder, Top.url>>)
    /\ cStack' = SetTop([Top EXCEPT !.inPage = TRUE,
                                   !.items = PageItems(tree, Top.folder, Top.url)])
    /\ UNCHANGED <<cPc, tree, cExt, cOut, cFail, searchVars, cacheVars, raceVars>>

\* lines 210-212: the page request does not answer 200: break
CrawlPageFail ==
    /\ cPc = "crawling"
    /\ ~Top.inPage /\ Top.url # 0
    /\ cReq' = Append(cReq, <<Top.folder, Top.url>>)
    /\ cFail' = cFail \cup {<<Top.folder, Top.url>>}
    /\ cStack' = SetTop(OnPageFail(Top))
    /\ UNCHANGED <<cPc, tree, cExt, cOut, searchVars, cacheVars, raceVars>>

\* lines 215-228: one pass of the for loop over the items of the page
CrawlItem ==
    /\ cPc = "crawling"
    /\ Top.inPage /\ Top.items # <<>>
    /\ LET item == Head(Top.items)
           rest == [Top EXCEPT !.items = Tail(Top.items)]
       IN  cStack' =
             IF tree.kind[item] = "file"
             THEN IF PassesFilter(NodeName(item), cExt)
                  THEN SetTop([rest EXCEPT !.results = Append(@, CrawlEntry(item))])
                  ELSE SetTop(rest)
             ELSE IF tree.kind[item] = "folder"
             THEN Append(SetTop(rest), Frame(item))
             ELSE SetTop(rest)
    /\ UNCHANGED <<cPc, tree, cExt, cOut, cReq, cFail, searchVars, cacheVars, raceVars>>

\* line 231: the for loop is over, url = data.get("@odata.nextLink")
CrawlPageEnd ==
    /\ cPc = "crawling"
    /\ Top.inPage /\ Top.items = <<>>
    /\ cStack' = SetTop([Top EXCEPT !.inPage = FALSE,
                                   !.url = NextLink(tree, Top.folder, Top.url)])
    /\ UNCHANGED <<cPc, tree, cExt, cOut, cReq, cFail, searchVars, cacheVars, raceVars>>

\* line 233 in a recursive call: line 228 of the caller extends its results
CrawlReturn ==
    /\ cPc = "crawling"
    /\ ~Top.inPage /\ Top.url = 0
    /\ Len(cStack) > 1
    /\ LET caller == cStack[Len(cStack) - 1]
       IN  cStack' = [SubSeq(cStack, 1, Len(cStack) - 1) EXCEPT ![Len(cStack) - 1] =
                         [caller EXCEPT !.results = Extend(@, Top.results)]]
    /\ UNCHANGED <<cPc, tree, cExt, cOut, cReq, cFail, searchVars, cacheVars, raceVars>>

\* line 233 in the outermost call: crawl_files answers count and files
CrawlFinish ==
    /\ cPc = "crawling"
    /\ ~Top.inPage /\ Top.url = 0
    /\ Len(cStack) = 1
    /\ cPc' = "done"
    /\ cOut' = [status |-> 200, count |-> Len(Top.results), files |-> Top.results]
    /\ cStack' = <<>>
    /\ UNCHANGED <<tree, cExt, cReq, cFail, searchVars, cacheVars, raceVars>>

----------------------------------------------------------------------------
(* Download cache: download_file and _read_file_content *)

MaxTime == 3        \* the clock stops after this many ticks
MaxFetches == 2     \* fetches in one run
MaxOffset == 1      \* offset is drawn from 0..MaxOffset
MaxLimit == 1       \* limit is drawn from 1..MaxLimit

\* the resolution of the model's clock, in seconds: every time is a multiple
\* of Tick, and a duration that is not zero counts as one Tick
Tick == 12 * 3600

\* 24 * 3600 of lines 120 and 149
TTL == 24 * 3600

ItemId == <<"i","1">>

CacheSuffix == <<".","c","a","c","h","e",".","j","s","o","n">>

\* names the item may carry in Graph
RemoteNames ==
    { <<"a",".","x","l","s","x">>, <<"b",".","d","o","c","x">> }

\* The bytes of an item, by what the three readers make of them:
\*   llama  - SimpleDirectoryReader.load_data: "docs", "nodocs" or "raise"
\*   docx   - docx.Document: "raise", or the paragraphs joined: "empty", "text"
\*   sheets - openpyxl.load_workbook: ok = FALSE is an exception, else the
\*            number of rows of every worksheet
NoSheets == [ok |-> FALSE, rows |-> <<>>]

Bodies ==
    { [v |-> 1, llama |-> "docs",   docx |-> "raise", sheets |-> NoSheets],
      [v |-> 2, llama |-> "raise",  docx |-> "raise", sheets |-> [ok |-> TRUE, rows |-> <<3, 1>>]],
      [v |-> 3, llama |-> "nodocs", docx |-> "empty", sheets |-> NoSheets],
      [v |-> 4, llama |-> "raise",  docx |-> "text",  sheets |-> NoSheets],
      [v |-> 5, llama |-> "raise",  docx |-> "raise", sheets |-> NoSheets] }

NoBody == [v |-> 0, llama |-> "raise", docx |-> "raise", sheets |-> NoSheets]

\* what a file holds: the bytes of a download, or the JSON of a result list
RawData(b) == [json |-> FALSE, body |-> b, res |-> <<>>]

JsonData(res) == [json |-> TRUE, body |-> NoBody, res |-> res]

\* the "text" of a result record
Text(kind, b, chunks, inner) ==
    [kind |-> kind, of |-> b, chunks |-> chunks, inner |-> inner]

Sentinel == Text("[No readable text found]", NoBody, <<>>, <<>>)

None == [none |-> TRUE, list |-> <<>>]

List(l) == [none |-> FALSE, list |-> l]

RECURSIVE RowLoop(_, _, _, _, _, _)
\* lines 177-184: the rows i, i+1, ... of a sheet of n rows
RowLoop(sheet, n, i, offset, limit, chunks) ==
    IF i >= n THEN chunks
    ELSE IF i < offset THEN RowLoop(sheet, n, i + 1, offset, limit, chunks)
    ELSE IF i >= offset + limit
         THEN Append(chunks, [t |-> "hint", sheet |-> sheet, n |-> offset + limit])
    ELSE RowLoop(sheet, n, i + 1, offset, limit,
                 Append(chunks, [t |-> "row", sheet |-> sheet, n |-> i]))

RECURSIVE SheetLoop(_, _, _, _, _)
\* lines 173-184: the worksheets k, k+1, ...
SheetLoop(rows, k, offset, limit, chunks) ==
    IF k > Len(rows) THEN chunks
    ELSE SheetLoop(rows, k + 1, offset, limit,
                   RowLoop(k, rows[k], 0, offset, limit,
                           Append(chunks, [t |-> "title", sheet |-> k, n |-> 0])))

WriteFile(files, name, mtime, data) ==
    {f \in files : f.name # name} \cup {[name |-> name, mtime |-> mtime, data |-> data]}

FileAt(files, name) == CHOOSE f \in files : f.name = name

\* lines 154-161: the documents SimpleDirectoryReader loads from a file. A
\* sidecar is a JSON text file: it loads as one document holding that text.
LlamaDocs(data) ==
    IF data.json THEN <<[text |-> Text("json", NoBody, <<>>, data.res), source |-> "llama"]>>
    ELSE IF data.body.llama = "docs"
         THEN <<[text |-> Text("doc", data.body, <<>>, <<>>), source |-> "llama"]>>
         ELSE <<>>

\* lines 165-185: text_output of the fallback readers; raised = TRUE when
\* Document or load_workbook raises
Fallback(file_path, data, offset, limit) ==
    IF EndsWith(file_path, <<".","d","o","c","x">>)
    THEN IF data.json \/ data.body.docx = "raise"
         THEN [raised |-> TRUE, text |-> Sentinel, ok |-> FALSE]
         ELSE [raised |-> FALSE, text |-> Text("docx", data.body, <<>>, <<>>),
               ok |-> data.body.docx = "text"]
    ELSE IF EndsWith(file_path, <<".","x","l","s","x">>)
    THEN IF data.json \/ ~data.body.sheets.ok
         THEN [raised |-> TRUE, text |-> Sentinel, ok |-> FALSE]
         ELSE LET chunks == SheetLoop(data.body.sheets.rows, 1, offset, limit, <<>>)
              IN  [raised |-> FALSE, text |-> Text("xlsx", data.body, chunks, <<>>),
                   ok |-> chunks # <<>>]
    ELSE [raised |-> FALSE, text |-> Sentinel, ok |-> FALSE]

\* lines 146-152: the sidecar is used when it exists and is younger than TTL
SidecarFresh(files, cache_path, t) ==
    \E f \in files : f.name = cache_path /\ t - f.mtime < TTL

\* _read_file_content at time t; a sidecar it writes is written at t + d
ReadFile(files, file_path, offset, limit, t, d) ==
    LET cache_path == file_path \o CacheSuffix
        data == FileAt(files, file_path).data
        docs == LlamaDocs(data)
        fb == Fallback(file_path, data, offset, limit)
        manual == <<[text |-> fb.text, source |-> "manual"]>>
    IN  IF SidecarFresh(files, cache_path, t)
        THEN [result |-> List(FileAt(files, cache_path).data.res), files |-> files,
              cached |-> TRUE, end |-> t]
        ELSE IF docs # <<>>
        THEN [result |-> List(docs),
              files |-> WriteFile(files, cache_path, t + d, JsonData(docs)),
              cached |-> FALSE, end |-> t + d]
        ELSE IF fb.raised
        THEN [result |-> None, files |-> files, cached |-> FALSE, end |-> t]
        ELSE IF fb.ok
        THEN [result |-> List(manual),
              files |-> WriteFile(files, cache_path, t + d, JsonData(manual)),
              cached |-> FALSE, end |-> t + d]
        ELSE [result |-> List(<<[text |-> Sentinel, source |-> "manual"]>>),
              files |-> files, cached |-> FALSE, end |-> t]

\* os.makedirs of line 114 run before the status test of line 104
OnMetadataFailMkdir(dsk) == [dsk EXCEPT !.exists = TRUE]

\* lines 103-109: what a failed metadata request leaves of the cache tree

OnMetadataFail(dsk) == dsk

\* line 106: metadata.get("name", f"{item_id}.bin")
FileName(rem) == IF rem.hasName THEN rem.name ELSE ItemId \o <<".","b","i","n">>

\* lines 119-120: the file found is reused when younger than TTL
IsFresh(f, t) == t - f.mtime < TTL

NoPick == [name |-> <<>>, mtime |-> 0, data |-> RawData(NoBody)]

\* download_file at time t. metaOk and dlOk say whether the metadata and the
\* content request answer 200; pick is existing_files[0], the entry
\* os.listdir happens to return first (NoPick when the folder is empty); d is
\* the time the extraction takes.
DownloadFile(dsk, rem, t, offset, limit, metaOk, pick, dlOk, d) ==
    LET miss == [disk |-> OnMetadataFail(dsk), result |-> None, end |-> t,
                 picked |-> <<>>, hit |-> FALSE, removed |-> FALSE,
                 dlReq |-> FALSE, readPath |-> <<>>, cached |-> FALSE]
        file_name == FileName(rem)
        found == pick # NoPick
        kept == IF found /\ ~IsFresh(pick, t) THEN dsk.files \ {pick} ELSE dsk.files
        written == WriteFile(kept, file_name, t, RawData(rem.body))
    IN  IF ~metaOk THEN miss
        ELSE IF found /\ IsFresh(pick, t)
        THEN LET r == ReadFile(dsk.files, pick.name, offset, limit, t, d)
             IN  [disk |-> [exists |-> TRUE, files |-> r.files], result |-> r.result,
                  end |-> r.end, picked |-> pick.name, hit |-> TRUE, removed |-> FALSE,
                  dlReq |-> FALSE, readPath |-> pick.name, cached |-> r.cached]
        ELSE IF ~dlOk
        THEN [disk |-> [exists |-> TRUE, files |-> kept], result |-> None, end |-> t,
              picked |-> pick.name, hit |-> FALSE, removed |-> found,
              dlReq |-> TRUE, readPath |-> <<>>, cached |-> FALSE]
        ELSE LET r == ReadFile(written, file_name, offset, limit, t, d)
             IN  [disk |-> [exists |-> TRUE, files |-> r.files], result |-> r.result,
                  end |-> r.end, picked |-> pick.name, hit |-> FALSE, removed |-> found,
                  dlReq |-> TRUE, readPath |-> file_name, cached |-> r.cached]

\* main.py, the responses of /get_file_content: JSONResponse(status_code,
\* {"error": ...}) and the plain dict {"content": ...}, which FastAPI sends
\* with status 200
JSONError(status_code) ==
    [status |-> status_code, error |-> TRUE, hasContent |-> FALSE, content |-> <<>>]

Content(text) ==
    [status |-> 200, error |-> FALSE, hasContent |-> TRUE, content |-> <<text>>]

NoReadableContent == [kind |-> "[No readable content found]"]

\* main.py lines 52-65: /get_file_content, given whether a token was
\* acquired and what download_file returned, or that it raised
get_file_content(access_token, content, raised) ==
    IF ~access_token THEN JSONError(401)
    ELSE IF raised THEN JSONError(500)
    ELSE IF ~content.none /\ Len(content.list) > 0
         THEN Content(content.list[1].text)
         ELSE Content(NoReadableContent)

NoFetch ==
    [k |-> 0, t |-> 0, offset |-> 0, limit |-> 0, token |-> FALSE,
     metaOk |-> FALSE, dlOk |-> FALSE,
     remote |-> [hasName |-> FALSE, name |-> <<>>, body |-> NoBody],
     result |-> None, picked |-> <<>>, hit |-> FALSE, removed |-> FALSE,
     dlReq |-> FALSE, readPath |-> <<>>, cached |-> FALSE,
     resp |-> JSONError(0)]

\* the item as Graph holds it when a fetch asks: its name, if the metadata
\* carries one, and its bytes
Remotes ==
    [hasName : {TRUE}, name : RemoteNames, body : Bodies]
    \cup [hasName : {FALSE}, name : {<<>>}, body : Bodies]

\* main.py lines 52-54: a request to /get_file_content when no token is
\* acquired; download_file is not called
FetchNoToken ==
    /\ last.k < MaxFetches
    /\ last' = [NoFetch EXCEPT !.k = last.k + 1, !.t = now,
                               !.resp = get_file_content(FALSE, None, FALSE)]
    /\ UNCHANGED <<now, disk, searchVars, crawlVars, raceVars>>

\* a request to /get_file_content with a token: one call of
\* download_file(drive_id, item_id, token, offset, limit), with what the call
\* did and what the endpoint answered recorded in last
Fetch ==
    /\ last.k < MaxFetches
    /\ \E remote \in Remotes, offset \in 0..MaxOffset, limit \in 1..MaxLimit, metaOk \in BOOLEAN,
          dlOk \in BOOLEAN, d \in {0, Tick},
          pick \in IF disk.files = {} THEN {NoPick} ELSE disk.files :
          LET r == DownloadFile(disk, remote, now, offset, limit, metaOk, pick, dlOk, d)
          IN  /\ r.end <= MaxTime * Tick
              /\ disk' = r.disk
              /\ now' = r.end
              /\ last' = [k |-> last.k + 1, t |-> now, offset |-> offset, limit |-> limit,
                          token |-> TRUE, metaOk |-> metaOk, dlOk |-> dlOk, remote |-> remote,
                          result |-> r.result, picked |-> r.picked, hit |-> r.hit,
                          removed |-> r.removed, dlReq |-> r.dlReq,
                          readPath |-> r.readPath, cached |-> r.cached,
                          resp |-> get_file_content(TRUE, r.result, FALSE)]
    /\ UNCHANGED <<searchVars, crawlVars, raceVars>>

\* time passes between two requests
TimePasses ==
    /\ now + Tick <= MaxTime * Tick
    /\ now' = now + Tick
    /\ UNCHANGED <<disk, last, searchVars, crawlVars, raceVars>>

----------------------------------------------------------------------------
(* Concurrent fetches of one item: download_file, statement by statement *)

NumWorkers == 3     \* worker processes, each serving one request

Workers == 1..NumWorkers

\* the item while the requests run: its bytes do not change, its name may
RaceRemotes == {r \in Remotes : r.hasName /\ r.body.v = 1}

\* what the path holds between open(file_path, "wb") of worker w and the end
\* of its with block: a part of the bytes b. The archive readers reject a
\* truncated file; SimpleDirectoryReader loads what is there of a text.
PartialBody(b, w) ==
    [v |-> 0 - w, llama |-> b.llama, docx |-> "raise", sheets |-> NoSheets]

IsPartial(data) == ~data.json /\ data.body.v < 0

\* a worker before its request
NoWork ==
    [pc |-> "idle", remote |-> NoFetch.remote, pick |-> NoPick, path |-> <<>>,
     hit |-> FALSE, removed |-> FALSE, result |-> None, raised |-> FALSE,
     partial |-> FALSE, resp |-> JSONError(0)]

\* the request of a worker ends: download_file returns content, or raises,
\* and /get_file_content answers
Finish(me, content, raised, partial) ==
    [me EXCEPT !.pc = "done", !.result = content, !.raised = raised,
               !.partial = partial,
               !.resp = get_file_content(TRUE, content, raised)]

\* a removal of the path just built from the metadata
RemoveNewPath(existing_file_path, file_path) == file_path

\* line 126: os.remove(existing_file_path)
RemovePath(existing_file_path, file_path) == existing_file_path

\* lines 103-109: the metadata request of worker w
RaceBegin ==
    \E w \in Workers, remote \in RaceRemotes, metaOk \in BOOLEAN :
        /\ wk[w].pc = "idle"
        /\ wk' = [wk EXCEPT ![w] =
                    IF metaOk THEN [@ EXCEPT !.pc = "list", !.remote = remote]
                    ELSE Finish([@ EXCEPT !.remote = remote], None, FALSE, FALSE)]
        /\ disk' = OnMetadataFail(disk)
        /\ UNCHANGED <<now, last, searchVars, crawlVars>>

\* lines 114-120: makedirs, listdir, existing_files[0] and the test of its age
RaceList ==
    \E w \in Workers, pick \in IF disk.files = {} THEN {NoPick} ELSE disk.files :
        /\ wk[w].pc = "list"
        /\ disk' = [disk EXCEPT !.exists = TRUE]
        /\ wk' = [wk EXCEPT ![w] =
                    IF pick = NoPick
                    THEN [@ EXCEPT !.pc = "request", !.path = FileName(wk[w].remote)]
                    ELSE IF IsFresh(pick, now)
                    THEN [@ EXCEPT !.pc = "read", !.pick = pick, !.hit = TRUE,
                                   !.path = pick.name]
                    ELSE [@ EXCEPT !.pc = "remove", !.pick = pick,
                                   !.path = FileName(wk[w].remote)]]
        /\ UNCHANGED <<now, last, searchVars, crawlVars>>

\* line 126: os.remove raises FileNotFoundError when the path is gone
RaceRemove ==
    \E w \in Workers :
        /\ wk[w].pc = "remove"
        /\ LET target == RemovePath(wk[w].pick.name, wk[w].path)
           IN  IF \E f \in disk.files : f.name = target
               THEN /\ disk' = [disk EXCEPT !.files = {f \in @ : f.name # target}]
                    /\ wk' = [wk EXCEPT ![w] = [@ EXCEPT !.pc = "request", !.removed = TRUE]]
               ELSE /\ disk' = disk
                    /\ wk' = [wk EXCEPT ![w] = Finish(@, None, TRUE, FALSE)]
        /\ UNCHANGED <<now, last, searchVars, crawlVars>>

\* lines 131-133: the content request, and open(file_path, "wb")
RaceOpen ==
    \E w \in Workers, dlOk \in BOOLEAN :
        /\ wk[w].pc = "request"
        /\ IF dlOk
           THEN /\ disk' = [disk EXCEPT !.files =
                               WriteFile(@, wk[w].path, now,
                                         RawData(PartialBody(wk[w].remote.body, w)))]
                /\ wk' = [wk EXCEPT ![w] = [@ EXCEPT !.pc = "write"]]
           ELSE /\ disk' = disk
                /\ wk' = [wk EXCEPT ![w] = Finish(@, None, FALSE, FALSE)]
        /\ UNCHANGED <<now, last, searchVars, crawlVars>>

\* lines 134-135: the last chunk is written and the file closed. The bytes
\* reach the path only if the path still leads to the file this worker
\* opened: not after a removal, nor when a later open truncated the file.
RaceWrite ==
    \E w \in Workers :
        /\ wk[w].pc = "write"
        /\ disk' = IF \E f \in disk.files :
                         f.name = wk[w].path /\ IsPartial(f.data) /\ f.data.body.v = 0 - w
                   THEN [disk EXCEPT !.files =
                            WriteFile(@, wk[w].path, now, RawData(wk[w].remote.body))]
                   ELSE disk
        /\ wk' = [wk EXCEPT ![w] = [@ EXCEPT !.pc = "read"]]
        /\ UNCHANGED <<now, last, searchVars, crawlVars>>

\* lines 122 and 137: _read_file_content(path). A path that is gone makes
\* every reader raise, as bytes no reader accepts do.
RaceRead ==
    \E w \in Workers :
        /\ wk[w].pc = "read"
        /\ LET there == \E f \in disk.files : f.name = wk[w].path
               gone == [name |-> wk[w].path, mtime |-> now, data |-> RawData(NoBody)]
               files == IF there THEN disk.files ELSE disk.files \cup {gone}
               r == ReadFile(files, wk[w].path, 0, 1, now, 0)
           IN  /\ disk' = [disk EXCEPT !.files = IF there THEN r.files ELSE r.files \ {gone}]
               /\ wk' = [wk EXCEPT ![w] =
                           Finish(@, r.result, FALSE,
                                  there /\ ~r.cached
                                        /\ IsPartial(FileAt(files, wk[w].path).data))]
        /\ UNCHANGED <<now, last, searchVars, crawlVars>>

----------------------------------------------------------------------------
(* Specifications *)

\* the values of the variables of a part that takes no step
SearchOff ==
    [pc |-> "done",
     in |-> [handler |-> "main", blank |-> FALSE, file_type |-> "all", token |-> FALSE,
             status |-> 500, body |-> [empty |-> TRUE, value |-> <<>>]],
     out |-> [count |-> 0, files |-> <<>>, message |-> "unset"]]

CrawlOff ==
    [pc |-> "done",
     tree |-> [kind |-> <<>>, parent |-> <<>>, page |-> <<>>, npages |-> <<>>],
     out |-> [status |-> 0, count |-> 0, files |-> <<>>]]

EmptyDisk == [exists |-> FALSE, files |-> {}]

\* the download cache: an empty cache tree
Init ==
    /\ now = 0
    /\ disk = EmptyDisk
    /\ last = NoFetch
    /\ wk = [w \in Workers |-> NoWork]
    /\ sPc = SearchOff.pc /\ sIn = SearchOff.in /\ sOut = SearchOff.out
    /\ cPc = CrawlOff.pc /\ tree = CrawlOff.tree /\ cExt = NoExt /\ cStack = <<>>
    /\ cOut = CrawlOff.out /\ cReq = <<>> /\ cFail = {}

Next ==
    \/ FetchNoToken
    \/ Fetch
    \/ TimePasses

Spec == Init /\ [][Next]_vars

\* the search handler, before a call with any of the inputs
SearchInit ==
    /\ sPc = "idle"
    /\ sIn \in SearchInputs
    /\ sOut = [count |-> 0, files |-> <<>>, message |-> "unset"]
    /\ cPc = CrawlOff.pc /\ tree = CrawlOff.tree /\ cExt = NoExt /\ cStack = <<>>
    /\ cOut = CrawlOff.out /\ cReq = <<>> /\ cFail = {}
    /\ now = 0 /\ disk = EmptyDisk /\ last = NoFetch
    /\ wk = [w \in Workers |-> NoWork]

SearchSpec == SearchInit /\ [][search_m365_files]_vars

\* the crawler, before a crawl of any of the drives
CrawlInit ==
    /\ cPc = "idle"
    /\ tree \in Trees
    /\ cExt \in {NoExt} \cup {[set |-> TRUE, ext |-> e] : e \in ExtPool}
    /\ cStack = <<>>
    /\ cOut = [status |-> 0, count |-> 0, files |-> <<>>]
    /\ cReq = <<>>
    /\ cFail = {}
    /\ sPc = SearchOff.pc /\ sIn = SearchOff.in /\ sOut = SearchOff.out
    /\ now = 0 /\ disk = EmptyDisk /\ last = NoFetch
    /\ wk = [w \in Workers |-> NoWork]

CrawlNext ==
    \/ CrawlNoToken
    \/ CrawlStart
    \/ CrawlPageOk
    \/ CrawlPageFail
    \/ CrawlItem
    \/ CrawlPageEnd
    \/ CrawlReturn
    \/ CrawlFinish

CrawlSpec == CrawlInit /\ [][CrawlNext]_vars

\* a crawl runs within one request handler, which runs to completion
CrawlFairSpec == CrawlSpec /\ WF_vars(CrawlNext)

\* the folder an earlier request filled from item rem, less than MaxTime
\* ticks before
OldDisk(rem) == DownloadFile(EmptyDisk, rem, 0, 0, 1, TRUE, NoPick, TRUE, 0).disk

\* concurrent requests for one item, on a folder never filled or on a folder
\* filled 24 h before
RaceInit ==
    /\ wk = [w \in Workers |-> NoWork]
    /\ now = TTL
    /\ disk \in {EmptyDisk} \cup {OldDisk(rem) : rem \in RaceRemotes}
    /\ last = NoFetch
    /\ sPc = SearchOff.pc /\ sIn = SearchOff.in /\ sOut = SearchOff.out
    /\ cPc = CrawlOff.pc /\ tree = CrawlOff.tree /\ cExt = NoExt /\ cStack = <<>>
    /\ cOut = CrawlOff.out /\ cReq = <<>> /\ cFail = {}

RaceNext ==
    \/ RaceBegin
    \/ RaceList
    \/ RaceRemove
    \/ RaceOpen
    \/ RaceWrite
    \/ RaceRead

RaceSpec == RaceInit /\ [][RaceNext]_vars

----------------------------------------------------------------------------
(* Properties of the download cache, under Spec *)

\* the step is a fetch
FetchStep == last'.k = last.k + 1

\* every remote call the fetch made answered 200
RemoteOk(f) == f.metaOk /\ (f.dlReq => f.dlOk)

\* the code's test of age: a file is stale when it is not younger than 24 h
Stale(f, t) == t - f.mtime >= TTL

IsSidecar(name) == EndsWith(name, CacheSuffix)

RawFiles(files) == {f \in files : ~IsSidecar(f.name)}

Sidecars(files) == {f \in files : IsSidecar(f.name)}

\* C1: cache idempotence. When a fetch that downloaded the file is followed,
\* less than 24 h later, by a fetch with the same offset and limit, the item
\* is unchanged in Graph and every remote call of both answers 200, then the
\* second fetch returns what the first returned and requests no content.
C1_Idempotent ==
    [][(/\ FetchStep
        /\ last.k >= 1
        /\ RemoteOk(last) /\ last.dlReq
        /\ RemoteOk(last')
        /\ last'.t - last.t < TTL
        /\ last'.remote = last.remote
        /\ last'.offset = last.offset /\ last'.limit = last.limit)
       => (last'.result = last.result /\ ~last'.dlReq)]_vars

\* C2: cache invariant. The folder of the pair holds at most one raw file and
\* at most one .cache.json sidecar, and a fetch that gets the metadata leaves
\* no file in the folder that was stale when it began.
C2_OnePerPair ==
    /\ [](Cardinality(RawFiles(disk.files)) <= 1 /\ Cardinality(Sidecars(disk.files)) <= 1)
    /\ [][(FetchStep /\ last'.metaOk)
          => \A f \in disk.files : Stale(f, now) => f \notin disk'.files]_vars

\* C3: cache expiry. A fetch that gets the metadata while the folder holds a
\* stale raw file deletes that file and requests the content again.
C3_Expiry ==
    [][(FetchStep /\ last'.metaOk)
       => \A f \in RawFiles(disk.files) :
             Stale(f, now) => (f \notin disk'.files /\ last'.removed /\ last'.dlReq)]_vars

\* C8: metadata failure. A fetch whose metadata request does not answer 200
\* returns None, requests no content and leaves the cache tree (the folder,
\* the raw files, the sidecars) as it was.
C8_MetadataFailure ==
    [][(FetchStep /\ last'.token /\ ~last'.metaOk)
       => (disk' = disk /\ ~last'.dlReq /\ last'.result = None)]_vars

\* C8 happens: the metadata request of the second fetch has failed on a
\* folder the first fetch filled
C8_Witness ==
    /\ last.k = 2 /\ last.token /\ ~last.metaOk
    /\ disk.files # {}

\* no reader yields text for bytes b stored under the name path
NoExtractorOutput(path, b) ==
    /\ b.llama \in {"raise", "nodocs"}
    /\ IF EndsWith(path, <<".","d","o","c","x">>) THEN b.docx \in {"raise", "empty"}
       ELSE IF EndsWith(path, <<".","x","l","s","x">>) THEN ~b.sheets.ok
       ELSE TRUE

\* C9: sentinel on extraction failure. A fetch that downloads bytes for which
\* no reader yields text (the general reader raises or loads no document, and
\* the fallback raises, does not apply or yields empty text) and finds no
\* fresh sidecar returns the one record "[No readable text found]".
C9_Sentinel ==
    (/\ last.k >= 1
     /\ RemoteOk(last) /\ last.dlReq
     /\ ~last.cached
     /\ NoExtractorOutput(last.readPath, last.remote.body))
    => last.result = List(<<[text |-> Sentinel, source |-> "manual"]>>)

\* the chunks the claim asks of a sheet of n rows: its title, the rows with
\* index in [offset, offset + limit), and the hint iff n > offset + limit
SheetChunks(sheet, n, offset, limit) ==
    LET hi == IF n < offset + limit THEN n ELSE offset + limit
        cnt == IF hi > offset THEN hi - offset ELSE 0
    IN  <<[t |-> "title", sheet |-> sheet, n |-> 0]>>
        \o [i \in 1..cnt |-> [t |-> "row", sheet |-> sheet, n |-> offset + i - 1]]
        \o (IF n > offset + limit
            THEN <<[t |-> "hint", sheet |-> sheet, n |-> offset + limit]>>
            ELSE <<>>)

RECURSIVE BookChunks(_, _, _, _)
BookChunks(rows, k, offset, limit) ==
    IF k > Len(rows) THEN <<>>
    ELSE SheetChunks(k, rows[k], offset, limit) \o BookChunks(rows, k + 1, offset, limit)

\* C10: spreadsheet row pagination. Every fetch that reads a raw .xlsx file
\* which the general reader does not load and openpyxl opens returns, for
\* each sheet, the rows [offset, offset + limit) of the fetch and the hint iff
\* the sheet has more rows; also when an earlier fetch used another offset.
C10_RowPagination ==
    (/\ last.k >= 1
     /\ RemoteOk(last)
     /\ last.readPath # <<>>
     /\ ~IsSidecar(last.readPath)
     /\ EndsWith(last.readPath, <<".","x","l","s","x">>)
     /\ \E f \in disk.files :
           /\ f.name = last.readPath
           /\ ~f.data.json
           /\ f.data.body.llama # "docs"
           /\ f.data.body.sheets.ok)
    => /\ ~last.result.none
       /\ Len(last.result.list) = 1
       /\ last.result.list[1].text.chunks =
             BookChunks(FileAt(disk.files, last.readPath).data.body.sheets.rows, 1,
                        last.offset, last.limit)

\* a remote failure of the fetch f: no token, or a metadata or content request
\* that does not answer 200
RemoteFailure(f) == ~f.token \/ ~f.metaOk \/ (f.dlReq /\ ~f.dlOk)

\* C11: remote-failure reporting. A request to /get_file_content that fails
\* to acquire a token, or whose metadata or content request does not answer
\* 200, is answered with a JSON error of a status that is not a success, and
\* never with a response that carries a content.
C11_RemoteFailureReported ==
    (last.k >= 1 /\ RemoteFailure(last))
    => /\ last.resp.error
       /\ last.resp.status \notin 200..299
       /\ ~last.resp.hasContent

\* the fetch f found a raw file, removed it as stale, and downloaded the item
Redownloaded(f) ==
    /\ f.token /\ f.metaOk
    /\ f.removed /\ ~IsSidecar(f.picked)
    /\ f.dlReq /\ f.dlOk

\* C14: fresh text after re-download. A fetch that removes a stale raw file
\* and downloads the item again returns text extracted from the bytes just
\* downloaded, not the text of a sidecar written before; and the entry a fetch
\* takes for the cached raw file is never a .cache.json sidecar.
C14_FreshAfterRedownload ==
    /\ (last.k >= 1 /\ Redownloaded(last))
       => /\ ~last.cached
          /\ ~last.result.none
              => \A i \in 1..Len(last.result.list) :
                    last.result.list[i].text.of \in {last.remote.body, NoBody}
    /\ (last.k >= 1 /\ last.picked # <<>>) => ~IsSidecar(last.picked)

----------------------------------------------------------------------------
(* Properties of concurrent fetches, under RaceSpec *)

\* worker w ended in the uncaught FileNotFoundError of os.remove
RemoveFailed(w) == wk[w].pc = "done" /\ wk[w].raised

\* worker w took a file another worker was still writing for a fresh cached
\* file and extracted text from its partial bytes
ReadPartialAsCached(w) == wk[w].pc = "done" /\ wk[w].hit /\ wk[w].partial

\* C12: unlocked cache race. Fetches of one item running concurrently reach
\* the two bad states (C12_Witness), and they reach them only by interleaving
\* on the shared folder: a removal fails only when another worker that chose
\* the same stale file has removed it, and text is extracted from partial
\* bytes only while another worker is writing the file read.
C12_UnlockedRace ==
    [][\A w \in Workers :
          /\ (wk'[w].raised /\ ~wk[w].raised)
             => /\ Stale(wk[w].pick, now)
                /\ \E u \in Workers \ {w} :
                      wk[u].removed /\ wk[u].pick.name = wk[w].pick.name
          /\ (wk'[w].partial /\ ~wk[w].partial)
             => \E u \in Workers \ {w} :
                   wk[u].pc = "write" /\ wk[u].path = wk[w].path]_vars

\* C12 happens: in one run, the removal of one worker has failed after
\* another removed the stale file both had found, the endpoint answering 500,
\* and a worker has returned text extracted from the partial bytes of a file
\* it took for a fresh cached file
C12_Witness ==
    /\ \E w \in Workers :
          /\ RemoveFailed(w)
          /\ wk[w].resp = JSONError(500)
          /\ \E u \in Workers \ {w} : wk[u].removed /\ wk[u].pick = wk[w].pick
    /\ \E w \in Workers :
          /\ ReadPartialAsCached(w)
          /\ ~wk[w].result.none
          /\ wk[w].result.list[1].text.of.v < 0

----------------------------------------------------------------------------
(* Properties of the crawler, under CrawlSpec and CrawlFairSpec *)

CrawlDone == cPc = "done" /\ cOut.status = 200

Folders == {Root} \cup {n \in Nodes : tree.kind[n] = "folder"}

\* C4: extension filter. A crawl with file_extension = X returns only items
\* whose name, in lower case, ends with "." followed by X in lower case.
C4_ExtensionFilter ==
    (CrawlDone /\ cExt.set)
    => \A i \in 1..Len(cOut.files) :
          EndsWith(Lower(cOut.files[i].name), Dot(Lower(cExt.ext)))

AllPages == {<<f, p>> : f \in Folders, p \in 1..MaxPages} \cap
            {fp \in ({Root} \cup Nodes) \X (1..MaxPages) : fp[2] <= tree.npages[fp[1]]}

\* C5: pagination termination. Every crawl terminates, and a crawl whose page
\* requests all answer 200 has requested each of the N pages of every
\* folder, once.
C5_Pagination ==
    /\ <>(cPc = "done")
    /\ [](CrawlDone /\ cFail = {}
          => /\ {cReq[i] : i \in 1..Len(cReq)} = AllPages
             /\ Len(cReq) = Cardinality(AllPages))

\* C5 happens: a crawl of a drive with a folder of two pages below the root
\* has ended without a failed request
C5_Witness ==
    /\ CrawlDone /\ cFail = {}
    /\ \E n \in Nodes : tree.kind[n] = "folder" /\ tree.npages[n] = 2
    /\ tree.npages[Root] = 2
    /\ Len(cReq) >= 4

\* page p of folder f, or an earlier page of f, failed
Cut(f, p) == \E q \in 1..p : <<f, q>> \in cFail

RECURSIVE Reached(_)
\* the listing that holds node n was read, and so was that of every ancestor
Reached(n) ==
    /\ ~Cut(tree.parent[n], tree.page[n])
    /\ tree.parent[n] # Root => Reached(tree.parent[n])

\* C7: crawl failure policy. A failed page request ends only the listing of
\* its own folder: the crawl answers normally with exactly the files (passing
\* the filter) of every page read, in any folder still reached, and it goes
\* on to request the remaining pages of every folder but the failed one.
C7_FailurePolicy ==
    CrawlDone
    => /\ {cOut.files[i].id : i \in 1..Len(cOut.files)} =
             {n \in Nodes : /\ tree.kind[n] = "file"
                            /\ PassesFilter(NodeName(n), cExt)
                            /\ Reached(n)}
       /\ Len(cOut.files) = Cardinality({cOut.files[i].id : i \in 1..Len(cOut.files)})
       /\ cOut.count = Len(cOut.files)
       /\ {cReq[i] : i \in 1..Len(cReq)} =
             {fp \in AllPages : /\ fp[1] # Root => Reached(fp[1])
                                /\ fp[2] > 1 => ~Cut(fp[1], fp[2] - 1)}

\* C7 happens: page 2 of a folder below the root failed after a file of its
\* page 1 was collected, and a later sibling of the folder was collected too
C7_Witness ==
    /\ CrawlDone
    /\ \E f \in Nodes :
          /\ <<f, 2>> \in cFail
          /\ tree.parent[f] = Root
          /\ \E i, j \in 1..Len(cOut.files) :
                /\ tree.parent[cOut.files[i].id] = f
                /\ tree.parent[cOut.files[j].id] = Root
                /\ cOut.files[j].id > f

RECURSIVE Path(_)
\* the nodes from the root down to node n
Path(n) == IF n = Root THEN <<Root>> ELSE Append(Path(tree.parent[n]), n)

\* the first position at which the paths of two nodes part
Fork(a, b) ==
    CHOOSE k \in 1..Len(Path(a)) :
        /\ k <= Len(Path(b))
        /\ Path(a)[k] # Path(b)[k]
        /\ \A j \in 1..(k - 1) : Path(a)[j] = Path(b)[j]

\* sibling x is listed before sibling y: on an earlier page, or earlier on
\* the same page
ListedBefore(x, y) ==
    \/ tree.page[x] < tree.page[y]
    \/ tree.page[x] = tree.page[y] /\ x < y

\* file a comes before file b in the depth-first listing order: where their
\* paths part, the branch of a is listed before the branch of b
DepthFirstBefore(a, b) ==
    ListedBefore(Path(a)[Fork(a, b)], Path(b)[Fork(a, b)])

\* C13: crawl completeness and order. A crawl with no extension filter whose
\* page requests all answer 200 returns every file of the drive once, no
\* folder and no other item, in depth-first listing order.
C13_CompleteInOrder ==
    (CrawlDone /\ ~cExt.set /\ cFail = {})
    => /\ {cOut.files[i].id : i \in 1..Len(cOut.files)} =
             {n \in Nodes : tree.kind[n] = "file"}
       /\ Len(cOut.files) = Cardinality({n \in Nodes : tree.kind[n] = "file"})
       /\ \A i \in 1..Len(cOut.files) : cOut.files[i] = CrawlEntry(cOut.files[i].id)
       /\ \A i, j \in 1..Len(cOut.files) :
             i < j => DepthFirstBefore(cOut.files[i].id, cOut.files[j].id)

\* C13 happens: an unfiltered crawl without a failed request has returned a
\* file of a subfolder before a file of the root that was created before it
C13_Witness ==
    /\ CrawlDone /\ ~cExt.set /\ cFail = {}
    /\ \E i, j \in 1..Len(cOut.files) :
          /\ i < j
          /\ cOut.files[i].id > cOut.files[j].id
          /\ tree.parent[cOut.files[i].id] # Root
          /\ tree.parent[cOut.files[j].id] = Root

----------------------------------------------------------------------------
(* Properties of the search handler, under SearchSpec *)

\* the call reached Graph and Graph answered 200 with a result object
SearchServed ==
    /\ sPc = "done"
    /\ ~(sIn.handler = "server" /\ sIn.blank)
    /\ sIn.token
    /\ sIn.status = 200
    /\ ~sIn.body.empty

\* the hits of the answer
BodyHits ==
    IF sIn.body.value # <<>> /\ sIn.body.value[1].hitsContainers # <<>>
    THEN sIn.body.value[1].hitsContainers[1].hits
    ELSE <<>>

\* name is something followed by "." and ext
HasExtension(name, ext) ==
    \E j \in 0..Len(name) : name = SubSeq(name, 1, j) \o <<".">> \o ext

Wanted(hit) ==
    /\ hit.name # <<>>
    /\ \/ sIn.file_type = "all"
       \/ \E k \in 1..Len(FileTypes[sIn.file_type]) :
             HasExtension(hit.name, FileTypes[sIn.file_type][k])

====
